---- MODULE Spec2Model ----
(***************************************************************************)
(* Model of finance_app_streamlit.py: a Streamlit front end over three     *)
(* SQLite tables (accounts, categories, transactions).  Every Streamlit    *)
(* session runs the script in its own thread; every execute_sql / get_df   *)
(* call opens its own connection and is one SQLite statement, committed on *)
(* its own.  Amounts and balances are integers (currency units); names are *)
(* sequences of characters so that str.strip() can be computed.  The free  *)
(* text description of a transaction and the monthly pivot of the reports  *)
(* page change no state and are left out.                                  *)
(***************************************************************************)
EXTENDS Integers, Sequences, FiniteSets, TLC

\* ---------------------------------------------------------------- bounds
MaxNameLen    == 2      \* longest name typed into a text_input
MaxAccounts   == 2      \* rows in accounts
MaxCategories == 2      \* rows in categories
MaxTx         == 2      \* rows in transactions
MaxRows       == 3      \* rows of the transaction history drawn for the reports

Sessions == {1, 2}      \* concurrent Streamlit sessions (script threads)
Chars    == {"a", " "}  \* characters of a typed name
Types    == {"Income", "Expense", "Transfer"}  \* the selectbox of add_category
Dates    == {1, 2}      \* calendar dates, ordered as integers
Amounts  == {-1, 2}     \* signed amounts typed into the form

None == "none"

\* The six (query, params) keys get_df is called with.
Queries == {"accounts_sel", "categories_sel", "accounts_list",
            "categories_list", "transactions_list", "reports_q"}

\* ------------------------------------------------------------- sequences
RECURSIVE SeqsUpTo(_, _)
SeqsUpTo(S, n) ==
    IF n = 0 THEN {<<>>}
    ELSE LET shorter == SeqsUpTo(S, n - 1)
         IN  shorter \cup {Append(q, x) : q \in {r \in shorter : Len(r) = n - 1}, x \in S}

RECURSIVE SumSeq(_)
SumSeq(q) == IF q = <<>> THEN 0 ELSE q[1] + SumSeq(Tail(q))

Abs(x) == IF x < 0 THEN -x ELSE x

\* ORDER BY, for rows no two of which compare equal: before holds the pairs
\* <<i, j>> of positions whose rows are in that order, and a row's place is
\* one more than the number of rows before it.
OrderBy(q, before) ==
    [k \in 1..Len(q) |->
        q[CHOOSE i \in DOMAIN q :
              Cardinality({j \in DOMAIN q : <<j, i>> \in before}) = k - 1]]

RowPairs(q) == (DOMAIN q) \X (DOMAIN q)

\* ------------------------------------------------------------------ names
\* str.strip(): drop leading and trailing whitespace.
RECURSIVE LStrip(_)
LStrip(n) == IF n # <<>> /\ n[1] = " " THEN LStrip(Tail(n)) ELSE n

RECURSIVE RStrip(_)
RStrip(n) ==
    IF n # <<>> /\ n[Len(n)] = " " THEN RStrip(SubSeq(n, 1, Len(n) - 1)) ELSE n

Strip(name) == RStrip(LStrip(name))

\* SQLite's BINARY collation on TEXT: bytewise, a proper prefix sorts first.
CharCode(c) == IF c = " " THEN 32 ELSE 97

RECURSIVE NameLess(_, _)
NameLess(a, b) ==
    IF b = <<>> THEN FALSE
    ELSE IF a = <<>> THEN TRUE
    ELSE IF CharCode(a[1]) # CharCode(b[1]) THEN CharCode(a[1]) < CharCode(b[1])
    ELSE NameLess(Tail(a), Tail(b))

TypeCode(t) == IF t = "Expense" THEN 1 ELSE IF t = "Income" THEN 2 ELSE 3

\* Everything a text_input can hold, up to MaxNameLen characters.
TypedNames == SeqsUpTo(Chars, MaxNameLen)

\* ------------------------------------------------------------------ state
VARIABLES
    accounts,       \* table accounts: row id = index; name, balance
                    \*   (+ history: initial = the balance given at creation,
                    \*    applied = sum of the deltas the UPDATEs added)
    categories,     \* table categories: row id = index; name, type
    transactions,   \* table transactions: row id = index
    cache,          \* st.cache_data's store for get_df, by query
    pc,             \* where each session's add_transaction run stands
    pending,        \* the acc_id, amount and row id of a session's INSERT
    msg,            \* the last st.success / st.error / st.info shown
    charts,         \* what the reports page last drew
    failedTx,       \* history: row ids whose add_transaction run raised
    overlapped      \* history: two runs were in flight on one account

vars == <<accounts, categories, transactions, cache, pc, pending, msg, charts,
          failedTx, overlapped>>

NoCall == [acc_id |-> 0, amount |-> 0, tx_id |-> 0]

\* ---------------------------------------------------------------- queries
AccountNames(accs) == {accs[i].name : i \in DOMAIN accs}
CategoryNames(cats) == {cats[i].name : i \in DOMAIN cats}

\* "SELECT id, name FROM accounts"
QAccountsSel(accs) == [i \in DOMAIN accs |-> [id |-> i, name |-> accs[i].name]]

\* "SELECT id, name, type FROM categories"
QCategoriesSel(cats) ==
    [i \in DOMAIN cats |-> [id |-> i, name |-> cats[i].name, type |-> cats[i].type]]

AccountRowLess(a, b) == NameLess(a.name, b.name)

\* "SELECT id, name, balance FROM accounts ORDER BY name"
QAccountsList(accs) ==
    LET rows == [i \in DOMAIN accs |->
                    [id |-> i, name |-> accs[i].name, balance |-> accs[i].balance]]
    IN  OrderBy(rows, {r \in RowPairs(rows) : AccountRowLess(rows[r[1]], rows[r[2]])})

CategoryRowLess(a, b) ==
    \/ TypeCode(a.type) < TypeCode(b.type)
    \/ a.type = b.type /\ NameLess(a.name, b.name)

\* "SELECT id, name, type FROM categories ORDER BY type, name"
QCategoriesList(cats) ==
    LET rows == QCategoriesSel(cats)
    IN  OrderBy(rows, {r \in RowPairs(rows) : CategoryRowLess(rows[r[1]], rows[r[2]])})

\* The inner joins keep a transaction only if both referenced rows exist.
Joined(txs, accs, cats) ==
    SelectSeq([i \in DOMAIN txs |-> [id |-> i, tx |-> txs[i]]],
              LAMBDA r : r.tx.account_id \in DOMAIN accs
                         /\ r.tx.category_id \in DOMAIN cats)

TxRowLess(a, b) == a.date > b.date \/ (a.date = b.date /\ a.id > b.id)

\* list_transactions' query: ... ORDER BY date DESC, t.id DESC
QTransactionsList(txs, accs, cats) ==
    LET j == Joined(txs, accs, cats)
        rows == [k \in DOMAIN j |->
                    [id       |-> j[k].id,
                     date     |-> j[k].tx.date,
                     account  |-> accs[j[k].tx.account_id].name,
                     category |-> cats[j[k].tx.category_id].name,
                     type     |-> cats[j[k].tx.category_id].type,
                     amount   |-> j[k].tx.amount]]
    IN  OrderBy(rows, {r \in RowPairs(rows) : TxRowLess(rows[r[1]], rows[r[2]])})

\* reports' query: transactions JOIN categories, no ORDER BY (row id order)
QReports(txs, cats) ==
    LET j == SelectSeq(txs, LAMBDA t : t.category_id \in DOMAIN cats)
    IN  [k \in DOMAIN j |->
            [date     |-> j[k].date,
             amount   |-> j[k].amount,
             type     |-> cats[j[k].category_id].type,
             category |-> cats[j[k].category_id].name]]

RunQuery(q) ==
    CASE q = "accounts_sel"      -> QAccountsSel(accounts)
      [] q = "categories_sel"    -> QCategoriesSel(categories)
      [] q = "accounts_list"     -> QAccountsList(accounts)
      [] q = "categories_list"   -> QCategoriesList(categories)
      [] q = "transactions_list" -> QTransactionsList(transactions, accounts, categories)
      [] q = "reports_q"         -> QReports(transactions, categories)

\* @st.cache_data get_df: the stored result if there is one, else the query's
\* result, which is then stored.  Nothing ever clears the store.
Miss == [hit |-> FALSE, df |-> <<>>]

GetDf(q) == IF cache[q].hit THEN cache[q].df ELSE RunQuery(q)

CacheAfter(qs) ==
    [q \in Queries |-> IF q \in qs THEN [hit |-> TRUE, df |-> GetDf(q)] ELSE cache[q]]

\* ------------------------------------------------------------- statements
\* Faulty variant: the name column declared without UNIQUE.
NoUniqueConstraint(names, name) == FALSE

\* UNIQUE on name: the INSERT raises sqlite3.IntegrityError.
UniqueViolation(names, name) == name \in names

\* "INSERT INTO accounts (name, balance) VALUES (?, ?)"
InsertAccount(accs, name, balance) ==
    Append(accs, [name |-> name, balance |-> balance,
                  initial |-> balance, applied |-> 0])

\* "INSERT INTO categories (name, type) VALUES (?,?)"
InsertCategory(cats, name, type) == Append(cats, [name |-> name, type |-> type])

\* "INSERT INTO transactions (date, account_id, category_id, description,
\* amount) VALUES (?,?,?,?,?)".  get_conn never sets PRAGMA foreign_keys, so
\* the FOREIGN KEY clauses are not enforced: any ids are stored.
InsertTransaction(txs, date, acc_id, cat_id, amount) ==
    Append(txs, [date |-> date, account_id |-> acc_id,
                 category_id |-> cat_id, amount |-> amount])

\* Faulty variant: the UPDATE without its WHERE clause.
UpdateBalanceAllRows(accs, acc_id, amount) ==
    [i \in DOMAIN accs |-> [accs[i] EXCEPT !.balance = @ + amount]]

\* Faulty variant: "SET balance = ?", the amount written over the balance.
UpdateBalanceOverwrite(accs, acc_id, amount) ==
    [i \in DOMAIN accs |->
        IF i = acc_id THEN [accs[i] EXCEPT !.balance = amount] ELSE accs[i]]

\* "UPDATE accounts SET balance = balance + ? WHERE id = ?"
UpdateBalance(accs, acc_id, amount) ==
    [i \in DOMAIN accs |->
        IF i = acc_id THEN [accs[i] EXCEPT !.balance = @ + amount] ELSE accs[i]]

\* History only: the delta an UPDATE statement was given for a row.
RecordApplied(accs, acc_id, amount) ==
    [i \in DOMAIN accs |->
        IF i = acc_id THEN [accs[i] EXCEPT !.applied = @ + amount] ELSE accs[i]]

\* df.loc[df["name"] == name, "id"].iat[0]: the id of the first row of that
\* name, taken as the integer it denotes when it is bound to a statement.
LookupId(df, name) ==
    LET hits == {i \in DOMAIN df : df[i].name = name}
    IN  df[CHOOSE i \in hits : \A j \in hits : i <= j].id

DfNames(df) == {df[i].name : i \in DOMAIN df}

NoCharts == [shown |-> None, series |-> <<>>, expense |-> <<>>]

\* ----------------------------------------------------------------- Init
Init ==
    /\ accounts = <<>>
    /\ categories = <<>>
    /\ transactions = <<>>
    /\ cache = [q \in Queries |-> Miss]
    /\ pc = [s \in Sessions |-> "idle"]
    /\ pending = [s \in Sessions |-> NoCall]
    /\ msg = None
    /\ charts = NoCharts
    /\ failedTx = {}
    /\ overlapped = FALSE

Idle(s) == pc[s] = "idle"

\* -------------------------------------------------------------- catalog
\* add_account: "if submitted and name" tests the name as typed; the INSERT
\* gets name.strip().
AddAccount(s, name, balance) ==
    /\ Idle(s)
    /\ name # <<>>
    /\ IF UniqueViolation(AccountNames(accounts), Strip(name))
       THEN /\ msg' = "account_dup"
            /\ UNCHANGED accounts
       ELSE /\ Len(accounts) < MaxAccounts
            /\ accounts' = InsertAccount(accounts, Strip(name), balance)
            /\ msg' = "account_ok"
    /\ UNCHANGED <<categories, transactions, cache, pc, pending, charts,
                   failedTx, overlapped>>

\* add_category
AddCategory(s, name, type) ==
    /\ Idle(s)
    /\ name # <<>>
    /\ IF UniqueViolation(CategoryNames(categories), Strip(name))
       THEN /\ msg' = "category_dup"
            /\ UNCHANGED categories
       ELSE /\ Len(categories) < MaxCategories
            /\ categories' = InsertCategory(categories, Strip(name), type)
            /\ msg' = "category_ok"
    /\ UNCHANGED <<accounts, transactions, cache, pc, pending, charts,
                   failedTx, overlapped>>

\* ---------------------------------------------------------- list pages
ListPage(s, q) ==
    /\ Idle(s)
    /\ cache' = CacheAfter({q})
    /\ msg' = None
    /\ UNCHANGED <<accounts, categories, transactions, pc, pending, charts,
                   failedTx, overlapped>>

ListAccounts(s) == ListPage(s, "accounts_list")
ListCategories(s) == ListPage(s, "categories_list")
ListTransactions(s) == ListPage(s, "transactions_list")

\* ------------------------------------------------------- add_transaction
\* accounts = get_df("SELECT id, name FROM accounts")
AddTxReadAccounts(s) ==
    /\ Idle(s)
    /\ cache' = CacheAfter({"accounts_sel"})
    /\ pc' = [pc EXCEPT ![s] = "accounts_read"]
    /\ UNCHANGED <<accounts, categories, transactions, pending, msg, charts,
                   failedTx, overlapped>>

\* categories = get_df(...); the page is drawn and the run ends: either the
\* info message (an empty list) or the form, not submitted.
AddTxRender(s) ==
    /\ pc[s] = "accounts_read"
    /\ cache' = CacheAfter({"categories_sel"})
    /\ msg' = IF cache["accounts_sel"].df = <<>> \/ GetDf("categories_sel") = <<>>
              THEN "need_catalog" ELSE None
    /\ pc' = [pc EXCEPT ![s] = "idle"]
    /\ UNCHANGED <<accounts, categories, transactions, pending, charts,
                   failedTx, overlapped>>

\* The first execute_sql of add_transaction: the INSERT, committed.  The run
\* still has the UPDATE to do.
TxInsert(s, date, acc_id, cat_id, amount) ==
    /\ Len(transactions) < MaxTx
    /\ transactions' = InsertTransaction(transactions, date, acc_id, cat_id, amount)
    /\ pending' = [pending EXCEPT ![s] =
            [acc_id |-> acc_id, amount |-> amount, tx_id |-> Len(transactions) + 1]]
    /\ overlapped' = (overlapped \/ \E t \in Sessions \ {s} :
                            pc[t] = "inserted" /\ pending[t].acc_id = acc_id)
    /\ pc' = [pc EXCEPT ![s] = "inserted"]

\* categories = get_df(...); the form is submitted: the names chosen in the
\* two selectboxes are resolved to ids and the transaction row is inserted.
AddTxSubmit(s, account_name, category_name, date, amount) ==
    /\ pc[s] = "accounts_read"
    /\ LET accs_df == cache["accounts_sel"].df
           cats_df == GetDf("categories_sel")
       IN  /\ accs_df # <<>>
           /\ cats_df # <<>>
           /\ account_name \in DfNames(accs_df)
           /\ category_name \in DfNames(cats_df)
           /\ TxInsert(s, date, LookupId(accs_df, account_name),
                       LookupId(cats_df, category_name), amount)
    /\ cache' = CacheAfter({"categories_sel"})
    /\ UNCHANGED <<accounts, categories, msg, charts, failedTx>>

\* Lines 143-148 on their own, for ids given by the caller: the operation
\* "record transaction(date, accountId, categoryId, description, amount)".
RecordTransaction(s, date, acc_id, cat_id, amount) ==
    /\ Idle(s)
    /\ TxInsert(s, date, acc_id, cat_id, amount)
    /\ UNCHANGED <<accounts, categories, cache, msg, charts, failedTx>>

\* The second execute_sql: the UPDATE, committed; then st.success.
AddTxUpdate(s) ==
    /\ pc[s] = "inserted"
    /\ accounts' = RecordApplied(
                      UpdateBalance(accounts, pending[s].acc_id, pending[s].amount),
                      pending[s].acc_id, pending[s].amount)
    /\ msg' = "tx_ok"
    /\ pc' = [pc EXCEPT ![s] = "idle"]
    /\ pending' = [pending EXCEPT ![s] = NoCall]
    /\ UNCHANGED <<categories, transactions, cache, charts, failedTx, overlapped>>

\* The second execute_sql raises (sqlite3.OperationalError: locked database,
\* I/O error): nothing catches it, the run ends, the INSERT stays committed.
AddTxFault(s) ==
    /\ pc[s] = "inserted"
    /\ failedTx' = failedTx \cup {pending[s].tx_id}
    /\ msg' = "exception"
    /\ pc' = [pc EXCEPT ![s] = "idle"]
    /\ pending' = [pending EXCEPT ![s] = NoCall]
    /\ UNCHANGED <<accounts, categories, transactions, cache, charts, overlapped>>

\* ---------------------------------------------------------------- reports
\* The orders df.sort_values("date") may leave the rows in: ascending dates.
\* The default kind is quicksort, which is not stable, so rows of one date
\* come in any order.
RECURSIVE Perms(_)
Perms(n) ==
    IF n = 0 THEN {<<>>}
    ELSE {SubSeq(p, 1, k - 1) \o <<n>> \o SubSeq(p, k, n - 1) :
            p \in Perms(n - 1), k \in 1..n}

DateSorts(df) ==
    {p \in Perms(Len(df)) :
        \A i, j \in 1..Len(df) : i < j => df[p[i]].date <= df[p[j]].date}

\* df_tx_sorted[["date", "saldo_acumulado"]]: the dates with amount.cumsum()
CumSeries(df, p) ==
    [k \in 1..Len(df) |->
        [date  |-> df[p[k]].date,
         saldo |-> SumSeq([j \in 1..k |-> df[p[j]].amount])]]

\* Faulty variant: .abs() taken before .sum().
ExpenseTotalsAbsFirst(df) ==
    LET exp == SelectSeq(df, LAMBDA r : r.type = "Expense")
    IN  {[category |-> c,
          value |-> SumSeq([k \in DOMAIN exp |->
                        IF exp[k].category = c THEN Abs(exp[k].amount) ELSE 0])] :
         c \in {exp[k].category : k \in DOMAIN exp}}

\* df_tx[type == "Expense"].groupby("category")["amount"].sum().abs()
ExpenseTotals(df) ==
    LET exp == SelectSeq(df, LAMBDA r : r.type = "Expense")
    IN  {[category |-> c,
          value |-> Abs(SumSeq([k \in DOMAIN exp |->
                        IF exp[k].category = c THEN exp[k].amount ELSE 0]))] :
         c \in {exp[k].category : k \in DOMAIN exp}}

\* .sort_values(ascending=False): the totals, largest first; equal values in
\* any order.
ExpenseOrders(df) ==
    LET tot == ExpenseTotals(df)
        n   == Cardinality(tot)
    IN  {e \in [1..n -> tot] :
            /\ \A i, j \in 1..n : e[i] = e[j] => i = j
            /\ \A i, j \in 1..n : i < j => e[i].value >= e[j].value}

\* reports: the query, then the cumulative series and the expense chart.
Reports(s) ==
    /\ Idle(s)
    /\ cache' = CacheAfter({"reports_q"})
    /\ LET df_tx == GetDf("reports_q")
       IN  IF df_tx = <<>>
           THEN charts' = [NoCharts EXCEPT !.shown = "no_data"]
           ELSE \E p \in DateSorts(df_tx), e \in ExpenseOrders(df_tx) :
                    charts' = [shown |-> "charts",
                               series |-> CumSeries(df_tx, p), expense |-> e]
    /\ msg' = None
    /\ UNCHANGED <<accounts, categories, transactions, pc, pending,
                   failedTx, overlapped>>

\* ------------------------------------------------------- specifications
\* The inputs the ledger specifications type in: two account names, one
\* category name, one date.
LedgerNames    == {<<"a">>, <<"a", "a">>}
LedgerBalances == {1}
LedgerCatNames == {<<"a">>}
LedgerTypes    == {"Income", "Expense"}
LedgerDates    == {1}

Catalog(s, names, balances, catnames, types) ==
    \/ \E name \in names, balance \in balances : AddAccount(s, name, balance)
    \/ \E name \in catnames, type \in types : AddCategory(s, name, type)

AddTransaction(s, dates) ==
    \/ AddTxReadAccounts(s)
    \/ AddTxRender(s)
    \/ \E an \in AccountNames(accounts), cn \in CategoryNames(categories),
          d \in dates, amt \in Amounts : AddTxSubmit(s, an, cn, d, amt)
    \/ AddTxUpdate(s)
    \/ AddTxFault(s)

\* The ledger: the two catalogs and add_transaction, from two sessions.
Next ==
    \E s \in Sessions :
        \/ Catalog(s, LedgerNames, LedgerBalances, LedgerCatNames, LedgerTypes)
        \/ AddTransaction(s, LedgerDates)

Spec == Init /\ [][Next]_vars

\* The whole application: the ledger and the four read-only pages.
Pages(s) ==
    \/ ListAccounts(s)
    \/ ListCategories(s)
    \/ ListTransactions(s)
    \/ Reports(s)

NextPages ==
    \E s \in Sessions :
        \/ Catalog(s, {<<"a">>}, LedgerBalances, LedgerCatNames, {"Expense"})
        \/ AddTransaction(s, LedgerDates)
        \/ Pages(s)

SpecPages == Init /\ [][NextPages]_vars

\* The two catalogs alone, with every name that can be typed, from one
\* session (each submission is a single statement).
CatalogBalances == {0}
CatalogTypes    == {"Income", "Expense"}

NextCatalog ==
    \E s \in {1} :
        Catalog(s, TypedNames, CatalogBalances, TypedNames, CatalogTypes)

SpecCatalog == Init /\ [][NextCatalog]_vars

\* The write path of add_transaction for ids given by the caller, existing
\* or not, over a catalog of one account and one category name.
CallerIds == 1..2

NextWritePath ==
    \E s \in Sessions :
        \/ Catalog(s, {<<"a">>}, LedgerBalances, LedgerCatNames, LedgerTypes)
        \/ \E d \in LedgerDates, a \in CallerIds, c \in CallerIds, amt \in Amounts :
              RecordTransaction(s, d, a, c, amt)
        \/ AddTxUpdate(s)
        \/ AddTxFault(s)

SpecWritePath == Init /\ [][NextWritePath]_vars

\* The reports over a drawn history: one account, three categories and up
\* to MaxRows transactions, every one of them recorded in full.
ReportCategories ==
    {<<[name |-> <<"a">>, type |-> "Expense"],
       [name |-> <<"a", "a">>, type |-> "Expense"],
       [name |-> <<"a", "a", "a">>, type |-> t]>> : t \in Types \ {"Expense"}}

ReportTransactions(cats) ==
    SeqsUpTo([date : Dates, account_id : {1}, category_id : DOMAIN cats,
              amount : Amounts], MaxRows)

InitReports ==
    /\ categories \in ReportCategories
    /\ transactions \in ReportTransactions(categories)
    /\ LET total == SumSeq([k \in DOMAIN transactions |-> transactions[k].amount])
       IN  accounts = <<[name |-> <<"a">>, balance |-> total,
                         initial |-> 0, applied |-> total]>>
    /\ cache = [q \in Queries |-> Miss]
    /\ pc = [s \in Sessions |-> "idle"]
    /\ pending = [s \in Sessions |-> NoCall]
    /\ msg = None
    /\ charts = NoCharts
    /\ failedTx = {}
    /\ overlapped = FALSE

NextReports == \E s \in {1} : Reports(s)

SpecReports == InitReports /\ [][NextReports]_vars

\* ----------------------------------------------------------------- claims
\* Sum of the amounts of the stored transactions that reference account a.
TxSum(a) ==
    SumSeq([k \in DOMAIN transactions |->
                IF transactions[k].account_id = a THEN transactions[k].amount ELSE 0])

\* No add_transaction run is between its INSERT and its UPDATE, and none raised.
AllSucceeded == failedTx = {} /\ \A s \in Sessions : pc[s] # "inserted"

\* C1: once every add_transaction run so far has completed successfully,
\* each account's balance is its initial balance plus the sum of the amounts
\* of the stored transactions referencing it, whatever accounts and
\* categories were created in between.
C1_BalanceInvariant ==
    AllSucceeded =>
        \A a \in DOMAIN accounts :
            accounts[a].balance = accounts[a].initial + TxSum(a)

\* Two transactions have been recorded in full on one account.
C1_Witness ==
    /\ AllSucceeded
    /\ \E a \in DOMAIN accounts :
          /\ Cardinality({k \in DOMAIN transactions :
                              transactions[k].account_id = a}) >= 2
          /\ accounts[a].initial # 0
          /\ accounts[a].balance # accounts[a].initial

\* C2: a run of add_transaction that raised left no transaction row behind
\* (the table is as before the call).
C2_Atomicity == \A id \in failedTx : id \notin DOMAIN transactions

\* C3: no read returns the transaction row of a run whose UPDATE of the
\* balance is still to come.
C3_NoIntermediateRead ==
    \A s \in Sessions :
        pc[s] = "inserted" =>
            \A k \in DOMAIN cache["transactions_list"].df :
                cache["transactions_list"].df[k].id # pending[s].tx_id

\* C4: whatever get_df would return from its store is what the query returns
\* now: no result stored before a write outlives the write.
C4_ReadsAreCurrent ==
    \A q \in Queries : cache[q].hit => cache[q].df = RunQuery(q)

C6_NamesUnique ==
    /\ \A i, j \in DOMAIN accounts : accounts[i].name = accounts[j].name => i = j
    /\ \A i, j \in DOMAIN categories : categories[i].name = categories[j].name => i = j

\* A duplicate was just refused while the catalog holds two accounts.
C6_Witness ==
    /\ msg \in {"account_dup", "category_dup"}
    /\ Len(accounts) >= 2
    /\ Len(categories) >= 1

\* C7: every stored account name is non-empty.
C7_NamesNonEmpty == \A i \in DOMAIN accounts : accounts[i].name # <<>>

\* The order a stable sort by date gives: rows of one date in row order.
StableDateSort(df) ==
    CHOOSE p \in DateSorts(df) :
        \A i, j \in 1..Len(df) :
            (i < j /\ df[p[i]].date = df[p[j]].date) => p[i] < p[j]

\* C8: the cumulative series drawn is the running sum over the rows the
\* report query returned, sorted by date with ties in insertion order.
C8_SeriesInInsertionOrder ==
    charts.shown = "charts" =>
        LET df == cache["reports_q"].df
        IN  charts.series = CumSeries(df, StableDateSort(df))

\* C8, the part that does not depend on the order of equal dates: the series
\* has one pair per returned row, in ascending dates, and each pair adds one
\* row's amount to the pair before it, ending at the sum of all amounts.
C8_SeriesIsRunningSum ==
    charts.shown = "charts" =>
        LET df == cache["reports_q"].df
            sr == charts.series
        IN  /\ Len(sr) = Len(df)
            /\ \A i, j \in DOMAIN sr : i < j => sr[i].date <= sr[j].date
            /\ \E p \in Perms(Len(df)) :
                   \A k \in DOMAIN sr :
                       /\ sr[k].date = df[p[k]].date
                       /\ sr[k].saldo =
                            (IF k = 1 THEN 0 ELSE sr[k - 1].saldo) + df[p[k]].amount
            /\ sr[Len(sr)].saldo = SumSeq([k \in DOMAIN df |-> df[k].amount])

\* Sum of the amounts of the rows of df of category c and of type t.
SumOf(df, c, t) ==
    SumSeq([k \in DOMAIN df |->
                IF df[k].category = c /\ df[k].type = t THEN df[k].amount ELSE 0])

\* C9: the expense chart has one entry for each category with an Expense
\* row, and no other; an entry's value is the absolute value of the sum of
\* that category's Expense amounts; the entries come largest first.
C9_ExpenseByCategory ==
    charts.shown = "charts" =>
        LET df == cache["reports_q"].df
            e  == charts.expense
        IN  /\ {e[i].category : i \in DOMAIN e} =
                   {df[k].category : k \in {r \in DOMAIN df : df[r].type = "Expense"}}
            /\ \A i, j \in DOMAIN e : e[i].category = e[j].category => i = j
            /\ \A i \in DOMAIN e :
                   e[i].value = Abs(SumOf(df, e[i].category, "Expense"))
            /\ \A i, j \in DOMAIN e : i < j => e[i].value >= e[j].value

\* Two expense categories with different totals were drawn, one of them
\* from amounts of both signs.
C9_Witness ==
    /\ charts.shown = "charts"
    /\ Len(charts.expense) = 2
    /\ charts.expense[1].value > charts.expense[2].value
    /\ LET df == cache["reports_q"].df
       IN  \E k, l \in DOMAIN df :
               /\ df[k].category = df[l].category
               /\ df[k].type = "Expense"
               /\ df[k].amount < 0 /\ df[l].amount > 0

\* C10: an account's balance is its initial balance plus the sum of the
\* amounts of the UPDATE statements run for it, however the runs of
\* different sessions interleave: no increment is lost.
C10_NoLostDelta ==
    \A a \in DOMAIN accounts :
        accounts[a].balance = accounts[a].initial + accounts[a].applied

\* Two runs on one account were in flight together and both completed.
C10_Witness ==
    /\ overlapped
    /\ AllSucceeded
    /\ \E a \in DOMAIN accounts :
          /\ Cardinality({k \in DOMAIN transactions :
                              transactions[k].account_id = a}) >= 2
          /\ accounts[a].applied = TxSum(a)
          /\ accounts[a].applied # 0

====
